---- MODULE Spec2Model ----
(***************************************************************************)
(* Goblin3D (src/src/goblin3d.cpp): the wireframe mesh store, the mesh     *)
(* builder with edge deduplication, the rotation/projection pass, the      *)
(* renderer and the OBJ importer, modelled over an explicit C heap.        *)
(*                                                                         *)
(* Memory.  A pointer is Null, Indet (an indeterminate value: storage      *)
(* that was never written) or the number of a heap block.  A block is a    *)
(* record [live, cells]; free() clears live, and a second free(), a use    *)
(* after free, a dereference of Null or of an indeterminate pointer, an    *)
(* access past the block's end and a read of an indeterminate number are   *)
(* undefined behaviour.  Undefined behaviour is recorded in ub and the     *)
(* run is not followed any further: the model asserts nothing about what   *)
(* a build does after it.  Block numbers carry no meaning, so between two  *)
(* calls the heap is kept in a canonical form (Normalize): the live blocks *)
(* the object reaches, numbered in the order of the object's fields; a     *)
(* pointer to a freed block becomes Dangling and a live block nothing      *)
(* points to any more is counted in leaked.                                *)
(*                                                                         *)
(* Numbers.  float values are modelled by integers; the inputs are chosen  *)
(* so that the float computation of the source is exact on them.           *)
(***************************************************************************)
EXTENDS Integers, Sequences, FiniteSets, TLC

VARIABLES
    obj,    \* the goblin3d_obj_t the caller owns
    heap,   \* the C heap: a sequence of blocks, a pointer is an index into it
    leaked, \* the number of live blocks no pointer reaches any more
    ub,     \* "none", or the undefined behaviour the program has executed
    life,   \* where the caller is in the object's lifecycle
    last,   \* the last library call: its name, arguments, result and pre-state
    drawn,  \* the calls of the draw callback the last library call made
    input,  \* the file handed to the importer: its characters, and what it says
    pos,    \* how many characters of input the importer has read
    line,   \* the importer's line buffer (String line) when it returned
    failed_at \* pos when the first allocation of the import failed, else 0

vars == <<obj, heap, leaked, ub, life, last, drawn, input, pos, line, failed_at>>

-----------------------------------------------------------------------------
(* Bounds of the model *)

MaxPoints == 2
MaxEdges == 2

\* The most lines of a generated input file.
MaxLines == 2

-----------------------------------------------------------------------------
(* Program constants *)

Null == 0
Indet == -999
Dangling == -998
UINT16 == 65536

\* A uint32_t is held as the int32 with the same bits: -1 is 4294967295.
\* n + 1 and n - 1 in uint32_t, wrapping at 2^32.
U32Inc(n) == IF n = -1 THEN 0
             ELSE IF n = 2147483647 THEN -2147483647 - 1 ELSE n + 1

U32Dec(n) == IF n = 0 THEN -1
             ELSE IF n = -2147483647 - 1 THEN 2147483647 ELSE n - 1

\* a < b in uint32_t
U32Less(a, b) == IF (a < 0) = (b < 0) THEN a < b ELSE b < 0

-----------------------------------------------------------------------------
(* The object *)

\* A goblin3d_obj_t in static storage (zero-initialised) and one in automatic
\* storage (every field indeterminate), before any library call.
ObjFields ==
    {"points", "edges", "orig_points", "rotated_points",
     "x_offset", "y_offset", "z_offset",
     "x_angle_deg", "y_angle_deg", "z_angle_deg",
     "point_count", "edge_count", "scale_size"}

RawObj(v) == [f \in ObjFields |-> v]

-----------------------------------------------------------------------------
(* The C heap *)

Ok(m) == m.ub = "none"

SetUB(m, what) == IF Ok(m) THEN [m EXCEPT !.ub = what] ELSE m

FreshCells(n) == [i \in 1..n |-> Indet]

\* malloc(n cells): the k-th allocation of a call fails when k is in m.fail.
Malloc(m, n) ==
    IF ~Ok(m) THEN [m |-> m, p |-> Null]
    ELSE LET k == m.ac + 1 IN
         IF k \in m.fail
         THEN [m |-> [m EXCEPT !.ac = k], p |-> Null]
         ELSE [m |-> [m EXCEPT !.ac = k,
                               !.heap = Append(@, [live |-> TRUE,
                                                   cells |-> FreshCells(n)])],
               p |-> Len(m.heap) + 1]

\* realloc(p, n cells): on failure the old block is left as it was and NULL is
\* returned; on success the block keeps its cells and gains indeterminate ones.
Realloc(m, p, n) ==
    IF ~Ok(m) THEN [m |-> m, p |-> Null]
    ELSE IF p = Null THEN Malloc(m, n)
    ELSE IF p = Indet THEN [m |-> SetUB(m, "realloc_indeterminate"), p |-> Null]
    ELSE IF p = Dangling \/ ~m.heap[p].live THEN [m |-> SetUB(m, "realloc_freed"), p |-> Null]
    ELSE LET k == m.ac + 1
             old == m.heap[p].cells
         IN IF k \in m.fail
            THEN [m |-> [m EXCEPT !.ac = k], p |-> Null]
            ELSE [m |-> [m EXCEPT !.ac = k,
                                  !.heap[p].cells =
                                      [i \in 1..n |-> IF i <= Len(old) THEN old[i]
                                                      ELSE Indet]],
                  p |-> p]

\* free(p)
Free(m, p) ==
    IF ~Ok(m) \/ p = Null THEN m
    ELSE IF p = Indet THEN SetUB(m, "free_indeterminate")
    ELSE IF p = Dangling \/ ~m.heap[p].live THEN SetUB(m, "double_free")
    ELSE [m EXCEPT !.heap[p] = [live |-> FALSE, cells |-> <<>>]]

\* The undefined behaviour, if any, of touching p[i].
Access(m, p, i) ==
    IF p = Null THEN "null_deref"
    ELSE IF p = Indet THEN "wild_deref"
    ELSE IF p = Dangling \/ ~m.heap[p].live THEN "use_after_free"
    ELSE IF i < 0 \/ i >= Len(m.heap[p].cells) THEN "out_of_bounds"
    ELSE "none"

Readable(m, p, i) == Ok(m) /\ Access(m, p, i) = "none"

\* p[i], for a readable p[i]
Load(m, p, i) == m.heap[p].cells[i + 1]

\* p[i] = v
Store(m, p, i, v) ==
    IF ~Ok(m) THEN m
    ELSE IF Access(m, p, i) # "none" THEN SetUB(m, Access(m, p, i))
    ELSE [m EXCEPT !.heap[p].cells[i + 1] = v]

\* p[i][j] = v
Store2(m, p, i, j, v) ==
    IF ~Ok(m) THEN m
    ELSE IF Access(m, p, i) # "none" THEN SetUB(m, Access(m, p, i))
    ELSE Store(m, Load(m, p, i), j, v)

\* The undefined behaviour, if any, of reading the number p[i][j].
Access2(m, p, i, j) ==
    IF Access(m, p, i) # "none" THEN Access(m, p, i)
    ELSE IF Access(m, Load(m, p, i), j) # "none" THEN Access(m, Load(m, p, i), j)
    ELSE IF Load(m, Load(m, p, i), j) = Indet THEN "uninit_read"
    ELSE "none"

Load2(m, p, i, j) == Load(m, Load(m, p, i), j)

\* The canonical form of the heap between two calls.
IsLive(m, p) == p >= 1 /\ m.heap[p].live

ArrayFields == <<"points", "edges", "orig_points", "rotated_points">>

RECURSIVE LiveCells(_, _, _)
LiveCells(m, cells, i) ==
    IF i > Len(cells) THEN <<>>
    ELSE (IF IsLive(m, cells[i]) THEN <<cells[i]>> ELSE <<>>)
         \o LiveCells(m, cells, i + 1)

RECURSIVE Reached(_, _)
Reached(m, k) ==
    IF k > Len(ArrayFields) THEN <<>>
    ELSE LET p == m.obj[ArrayFields[k]] IN
         (IF IsLive(m, p) THEN <<p>> \o LiveCells(m, m.heap[p].cells, 1) ELSE <<>>)
         \o Reached(m, k + 1)

Normalize(m) ==
    LET order == Reached(m, 1)
        arrays == {m.obj[ArrayFields[k]] : k \in 1..Len(ArrayFields)}
        Rename(p) == IF p < 1 THEN p
                     ELSE IF ~m.heap[p].live THEN Dangling
                     ELSE CHOOSE k \in 1..Len(order) : order[k] = p
        Block(p) == IF p \in arrays
                    THEN [live |-> TRUE,
                          cells |-> [i \in 1..Len(m.heap[p].cells) |->
                                        Rename(m.heap[p].cells[i])]]
                    ELSE m.heap[p]
        nlive == Cardinality({p \in 1..Len(m.heap) : m.heap[p].live})
    IN [m EXCEPT !.heap = [k \in 1..Len(order) |-> Block(order[k])],
                 !.obj = [f \in ObjFields |->
                             IF \E k \in 1..Len(ArrayFields) : ArrayFields[k] = f
                             THEN Rename(m.obj[f]) ELSE m.obj[f]],
                 !.leaked = @ + nlive - Len(order)]

-----------------------------------------------------------------------------
(* Mesh store *)

\* A library function runs on a machine m until it returns (m.done, with the
\* result m.ret) or executes undefined behaviour; every statement below leaves
\* a machine that has returned, or has left defined behaviour, as it is.
Active(m) == Ok(m) /\ ~m.done

\* return v;
Ret(m, v) == IF Active(m) THEN [m EXCEPT !.done = TRUE, !.ret = v] ELSE m

\* if(p[i]) free(p[i]);
FreeSlot(m, p, i) ==
    IF ~Ok(m) THEN m
    ELSE IF Access(m, p, i) # "none" THEN SetUB(m, Access(m, p, i))
    ELSE Free(m, Load(m, p, i))

RECURSIVE FreePointLoop(_, _)
FreePointLoop(m, i) ==
    IF ~Ok(m) \/ i >= m.obj.point_count THEN m
    ELSE FreePointLoop(
             FreeSlot(FreeSlot(FreeSlot(m, m.obj.points, i),
                               m.obj.orig_points, i),
                      m.obj.rotated_points, i),
             i + 1)

RECURSIVE FreeEdgeLoop(_, _)
FreeEdgeLoop(m, i) ==
    IF ~Ok(m) \/ i >= m.obj.edge_count THEN m
    ELSE FreeEdgeLoop(FreeSlot(m, m.obj.edges, i), i + 1)

\* if(obj->f) free(obj->f);
FreeArray(m, f) == Free(m, m.obj[f])

goblin3d_free(m) ==
    FreeArray(FreeArray(FreeArray(FreeArray(
        FreeEdgeLoop(FreePointLoop(m, 0), 0),
        "points"), "edges"), "orig_points"), "rotated_points")

goblin3d_init_empty(m) ==
    [m EXCEPT !.obj.point_count = 0, !.obj.edge_count = 0,
              !.obj.points = Null, !.obj.orig_points = Null,
              !.obj.rotated_points = Null, !.obj.edges = Null]

\* obj->f = malloc(n); if(!obj->f) { goblin3d_free(obj); return false; }
InitArray(m, f, n) ==
    IF ~Active(m) THEN m
    ELSE LET r == Malloc(m, n)
             s == [r.m EXCEPT !.obj[f] = r.p]
         IN IF r.p = Null THEN Ret(goblin3d_free(s), FALSE) ELSE s

\* obj->f[i] = malloc(n); if(!obj->f[i]) { goblin3d_free(obj); return false; }
InitSlot(m, f, i, n) ==
    IF ~Active(m) THEN m
    ELSE LET r == Malloc(m, n)
             s == Store(r.m, r.m.obj[f], i, r.p)
         IN IF r.p = Null THEN Ret(goblin3d_free(s), FALSE) ELSE s

RECURSIVE InitPointLoop(_, _)
InitPointLoop(m, i) ==
    IF ~Active(m) \/ i >= m.obj.point_count THEN m
    ELSE InitPointLoop(
             InitSlot(InitSlot(InitSlot(m, "points", i, 2),
                               "orig_points", i, 3),
                      "rotated_points", i, 3),
             i + 1)

RECURSIVE InitEdgeLoop(_, _)
InitEdgeLoop(m, i) ==
    IF ~Active(m) \/ i >= m.obj.edge_count THEN m
    ELSE InitEdgeLoop(InitSlot(m, "edges", i, 2), i + 1)

\* The angles and offsets are zeroed (scale_size is not set), return true;
InitTransform(m) ==
    Ret([m EXCEPT !.obj.x_angle_deg = 0, !.obj.y_angle_deg = 0,
                  !.obj.z_angle_deg = 0, !.obj.x_offset = 0,
                  !.obj.y_offset = 0, !.obj.z_offset = 0], TRUE)

goblin3d_init(m, point_count, edge_count) ==
    InitTransform(InitEdgeLoop(InitPointLoop(
        InitArray(InitArray(InitArray(InitArray(
            [m EXCEPT !.obj.point_count = point_count,
                      !.obj.edge_count = edge_count],
            "points", point_count), "edges", edge_count),
            "orig_points", point_count), "rotated_points", point_count),
        0), 0))

-----------------------------------------------------------------------------
(* Mesh builder *)

\* obj->f = realloc(obj->f, obj->count * sizeof(pointer));
\* if(obj->f == NULL) return false;
GrowArray(m, f, count) ==
    IF ~Active(m) THEN m
    ELSE LET r == Realloc(m, m.obj[f], m.obj[count])
             s == IF Ok(r.m) THEN [r.m EXCEPT !.obj[f] = r.p] ELSE r.m
         IN IF r.p = Null THEN Ret(s, FALSE) ELSE s

\* obj->f[obj->point_count - 1] = malloc(3 floats);
\* if(obj->f == NULL) return false;      (the array is tested, not the record)
NewRecord(m, f) ==
    IF ~Active(m) THEN m
    ELSE LET r == Malloc(m, 3)
             s == Store(r.m, r.m.obj[f], r.m.obj.point_count - 1, r.p)
         IN IF s.obj[f] = Null THEN Ret(s, FALSE) ELSE s

\* A slip: y and z stored in each other's place.
StorePositionSwapped(m, x, y, z) ==
    IF ~Active(m) THEN m
    ELSE Store2(Store2(Store2(m, m.obj.orig_points, m.obj.point_count - 1, 0, x),
                       m.obj.orig_points, m.obj.point_count - 1, 1, z),
                m.obj.orig_points, m.obj.point_count - 1, 2, y)

\* obj->orig_points[obj->point_count - 1][0] = x; ...[1] = y; ...[2] = z;
StorePosition(m, x, y, z) ==
    IF ~Active(m) THEN m
    ELSE Store2(Store2(Store2(m, m.obj.orig_points, m.obj.point_count - 1, 0, x),
                       m.obj.orig_points, m.obj.point_count - 1, 1, y),
                m.obj.orig_points, m.obj.point_count - 1, 2, z)

goblin3d_add_point(m, x, y, z) ==
    Ret(StorePosition(
            NewRecord(NewRecord(NewRecord(
                GrowArray(GrowArray(GrowArray(
                    [m EXCEPT !.obj.point_count = U32Inc(@)],
                    "orig_points", "point_count"),
                    "rotated_points", "point_count"),
                    "points", "point_count"),
                "orig_points"), "rotated_points"), "points"),
            x, y, z),
        TRUE)

\* The undefined behaviour, if any, of reading both ends of edges[i].
EdgeAccess(m, i) ==
    IF Access2(m, m.obj.edges, i, 0) # "none" THEN Access2(m, m.obj.edges, i, 0)
    ELSE Access2(m, m.obj.edges, i, 1)

\* A slip: the loop stops one edge early.
RECURSIVE EdgeExistsSkipsLast(_, _, _, _)
EdgeExistsSkipsLast(m, i, v1, v2) ==
    IF i >= m.obj.edge_count - 1 THEN [ub |-> "none", ret |-> FALSE]
    ELSE IF EdgeAccess(m, i) # "none" THEN [ub |-> EdgeAccess(m, i), ret |-> FALSE]
    ELSE IF (Load2(m, m.obj.edges, i, 0) = v1 /\ Load2(m, m.obj.edges, i, 1) = v2)
            \/ (Load2(m, m.obj.edges, i, 0) = v2 /\ Load2(m, m.obj.edges, i, 1) = v1)
         THEN [ub |-> "none", ret |-> TRUE]
         ELSE EdgeExistsSkipsLast(m, i + 1, v1, v2)

\* The loop of goblin3d_edge_exists from position i: [ub, ret].
RECURSIVE EdgeExistsLoop(_, _, _, _)
EdgeExistsLoop(m, i, v1, v2) ==
    IF i >= m.obj.edge_count THEN [ub |-> "none", ret |-> FALSE]
    ELSE IF EdgeAccess(m, i) # "none" THEN [ub |-> EdgeAccess(m, i), ret |-> FALSE]
    ELSE LET existing_v1 == Load2(m, m.obj.edges, i, 0)
             existing_v2 == Load2(m, m.obj.edges, i, 1)
         IN IF (existing_v1 = v1 /\ existing_v2 = v2)
               \/ (existing_v1 = v2 /\ existing_v2 = v1)
            THEN [ub |-> "none", ret |-> TRUE]
            ELSE EdgeExistsLoop(m, i + 1, v1, v2)

\* A slip: the stored edge is compared in the given order only.
RECURSIVE EdgeExistsOrdered(_, _, _, _)
EdgeExistsOrdered(m, i, v1, v2) ==
    IF i >= m.obj.edge_count THEN [ub |-> "none", ret |-> FALSE]
    ELSE IF EdgeAccess(m, i) # "none" THEN [ub |-> EdgeAccess(m, i), ret |-> FALSE]
    ELSE IF Load2(m, m.obj.edges, i, 0) = v1 /\ Load2(m, m.obj.edges, i, 1) = v2
         THEN [ub |-> "none", ret |-> TRUE]
         ELSE EdgeExistsOrdered(m, i + 1, v1, v2)

EdgeExistsOneWay(m, v1, v2) == EdgeExistsOrdered(m, 0, v1, v2)

goblin3d_edge_exists(m, v1, v2) == EdgeExistsLoop(m, 0, v1, v2)

\* A slip: the pair stored smaller index first.
StoreEdgeSorted(m, v1, v2) ==
    Store2(Store2(m, m.obj.edges, m.obj.edge_count - 1, 0,
                  IF v1 <= v2 THEN v1 ELSE v2),
           m.obj.edges, m.obj.edge_count - 1, 1, IF v1 <= v2 THEN v2 ELSE v1)

\* obj->edges[obj->edge_count - 1][0] = v1; obj->edges[...][1] = v2;
StoreEdge(m, v1, v2) ==
    Store2(Store2(m, m.obj.edges, m.obj.edge_count - 1, 0, v1),
           m.obj.edges, m.obj.edge_count - 1, 1, v2)

\* obj->edges[obj->edge_count - 1] = malloc(2 * sizeof(uint32_t)), unchecked,
\* the two stores, return true;
NewEdge(m, v1, v2) ==
    IF ~Active(m) THEN m
    ELSE LET r == Malloc(m, 2)
             s == Store(r.m, r.m.obj.edges, r.m.obj.edge_count - 1, r.p)
         IN Ret(StoreEdge(s, v1, v2), TRUE)

goblin3d_add_edge(m, v1, v2) ==
    LET x == goblin3d_edge_exists(m, v1, v2) IN
    IF ~Active(m) THEN m
    ELSE IF x.ub # "none" THEN SetUB(m, x.ub)
    ELSE IF x.ret THEN Ret(m, TRUE)
    ELSE NewEdge(GrowArray([m EXCEPT !.obj.edge_count = U32Inc(@)],
                           "edges", "edge_count"),
                 v1, v2)

-----------------------------------------------------------------------------
(* Transform and projection *)

\* cos and sin of an angle in degrees.  The model uses whole quarter turns and
\* takes the two functions exact there; the rounding error of the float
\* computation (radians = degrees * 0.01745329251) is not modelled.
Cos(deg) == CASE deg = 0 -> 1 [] deg = 90 -> 0 [] deg = 180 -> -1 [] deg = 270 -> 0

Sin(deg) == CASE deg = 0 -> 0 [] deg = 90 -> 1 [] deg = 180 -> 0 [] deg = 270 -> -1

\* The rotations about X, then Y, then Z of (x, y, z).
RotateX(p, deg) ==
    <<p[1], p[2] * Cos(deg) - p[3] * Sin(deg), p[2] * Sin(deg) + p[3] * Cos(deg)>>

\* A slip: cos and sin exchanged in the rotation about Y.
RotateYSwapped(p, deg) ==
    <<p[1] * Sin(deg) + p[3] * Cos(deg), p[2], -p[1] * Cos(deg) + p[3] * Sin(deg)>>

RotateY(p, deg) ==
    <<p[1] * Cos(deg) + p[3] * Sin(deg), p[2], -p[1] * Sin(deg) + p[3] * Cos(deg)>>

RotateZ(p, deg) ==
    <<p[1] * Cos(deg) - p[2] * Sin(deg), p[1] * Sin(deg) + p[2] * Cos(deg), p[3]>>

Rotate(p, o) ==
    RotateZ(RotateY(RotateX(p, o.x_angle_deg), o.y_angle_deg), o.z_angle_deg)

Abs(n) == IF n < 0 THEN -n ELSE n

\* round(a / z * scale) for z < 0: to the nearest integer, a tie away from
\* zero.  The inputs of the model make the float quotient and product exact
\* wherever the real value is a tie.
RoundQuot(a, z, scale) ==
    LET n == a * scale
        mag == (2 * Abs(n) + Abs(z)) \div (2 * Abs(z))
    IN IF (n < 0) = (z < 0) THEN mag ELSE -mag

\* float z_clamped = z < -3.0 ? z : -3.0;
Clamp(z) == IF z < -3 THEN z ELSE -3

TransformFields ==
    {"x_offset", "y_offset", "z_offset",
     "x_angle_deg", "y_angle_deg", "z_angle_deg", "scale_size"}

\* One turn of the loop of goblin3d_precalculate, for vertex i.
PrecalcPoint(m, i) ==
    IF ~Active(m) THEN m
    ELSE IF \E j \in 0..2 : Access2(m, m.obj.orig_points, i, j) # "none"
    THEN SetUB(m, CHOOSE u \in {Access2(m, m.obj.orig_points, i, j) : j \in 0..2} :
                      u # "none")
    ELSE IF \E f \in TransformFields : m.obj[f] = Indet
    THEN SetUB(m, "uninit_read")
    ELSE LET o == m.obj
             r == Rotate(<<Load2(m, o.orig_points, i, 0),
                           Load2(m, o.orig_points, i, 1),
                           Load2(m, o.orig_points, i, 2)>>, o)
             z_clamped == Clamp(r[3])
             a == Store2(Store2(Store2(m, o.rotated_points, i, 0, r[1]),
                                o.rotated_points, i, 1, r[2]),
                         o.rotated_points, i, 2, r[3] + o.z_offset)
         IN Store2(Store2(a, o.points, i, 0,
                          RoundQuot(r[1], z_clamped, o.scale_size) + o.x_offset),
                   o.points, i, 1,
                   RoundQuot(r[2], z_clamped, o.scale_size) + o.y_offset)

RECURSIVE PrecalcLoop(_, _)
PrecalcLoop(m, i) ==
    IF ~Active(m) \/ i >= m.obj.point_count THEN m
    ELSE PrecalcLoop(PrecalcPoint(m, i), i + 1)

\* The three angles are read before the loop.
goblin3d_precalculate(m) ==
    IF \E f \in {"x_angle_deg", "y_angle_deg", "z_angle_deg"} : m.obj[f] = Indet
    THEN SetUB(m, "uninit_read")
    ELSE Ret(PrecalcLoop(m, 0), TRUE)

-----------------------------------------------------------------------------
(* Renderer *)

\* What the draw callback receives for the float v in a uint16_t parameter.  A
\* value in 0..65535 converts to itself; the conversion of any other value is
\* undefined, and a build either wraps it modulo 2^16 or saturates it.
ToU16(v, conv) ==
    IF v >= 0 /\ v < UINT16 THEN v
    ELSE IF conv = "wrap" THEN v % UINT16
    ELSE IF v < 0 THEN 0 ELSE UINT16 - 1

Conversions == {"wrap", "saturate"}

\* The undefined behaviour, if any, of reading edge i and the projected
\* coordinates of its two vertices.
DrawAccess(m, i) ==
    IF EdgeAccess(m, i) # "none" THEN EdgeAccess(m, i)
    ELSE LET start == Load2(m, m.obj.edges, i, 0)
             end == Load2(m, m.obj.edges, i, 1)
             all == <<Access2(m, m.obj.points, start, 0),
                      Access2(m, m.obj.points, start, 1),
                      Access2(m, m.obj.points, end, 0),
                      Access2(m, m.obj.points, end, 1)>>
         IN IF \A k \in 1..4 : all[k] = "none" THEN "none"
            ELSE all[CHOOSE k \in 1..4 :
                        all[k] # "none" /\ \A h \in 1..(k - 1) : all[h] = "none"]

\* The four float values passed to draw for edge i.
DrawArgs(m, i) ==
    LET start == Load2(m, m.obj.edges, i, 0)
        end == Load2(m, m.obj.edges, i, 1)
    IN <<Load2(m, m.obj.points, start, 0), Load2(m, m.obj.points, start, 1),
         Load2(m, m.obj.points, end, 0), Load2(m, m.obj.points, end, 1)>>

\* The loop of goblin3d_render from edge i: the machine and the calls made.
RECURSIVE RenderLoop(_, _, _, _)
RenderLoop(m, i, conv, calls) ==
    IF ~Active(m) \/ i >= m.obj.edge_count THEN [m |-> m, calls |-> calls]
    ELSE IF DrawAccess(m, i) # "none"
    THEN [m |-> SetUB(m, DrawAccess(m, i)), calls |-> calls]
    ELSE RenderLoop(m, i + 1, conv,
                    Append(calls, [k \in 1..4 |-> ToU16(DrawArgs(m, i)[k], conv)]))

goblin3d_render(m, conv) == RenderLoop(m, 0, conv, <<>>)

-----------------------------------------------------------------------------
(* OBJ importer *)

\* A line is a sequence of characters (strings of length one).
StartsWith(s, prefix) ==
    Len(s) >= Len(prefix) /\ SubSeq(s, 1, Len(prefix)) = prefix

Digit ==
    ("0" :> 0) @@ ("1" :> 1) @@ ("2" :> 2) @@ ("3" :> 3) @@ ("4" :> 4) @@
    ("5" :> 5) @@ ("6" :> 6) @@ ("7" :> 7) @@ ("8" :> 8) @@ ("9" :> 9)

\* sscanf skips white space before a number.
RECURSIVE SkipSpace(_, _)
SkipSpace(s, i) ==
    IF i <= Len(s) /\ s[i] \in {" ", "\t"} THEN SkipSpace(s, i + 1) ELSE i

\* The position after the digits that start at i.
RECURSIVE DigitsEnd(_, _)
DigitsEnd(s, i) ==
    IF i <= Len(s) /\ s[i] \in DOMAIN Digit THEN DigitsEnd(s, i + 1) ELSE i

\* The value of the digits s[i..j-1], after the value acc of the ones before.
RECURSIVE DigitsValue(_, _, _, _)
DigitsValue(s, i, j, acc) ==
    IF i >= j THEN acc ELSE DigitsValue(s, i + 1, j, 10 * acc + Digit[s[i]])

\* One %f or %u conversion at position i: white space, an optional sign, then
\* digits.  The inputs of the model are whole numbers.  A negative number
\* under %u is its two's complement, which the model's uint32 already is.
ScanValue(s, b, e, neg) ==
    [ok |-> e > b, next |-> e,
     val |-> IF neg THEN -DigitsValue(s, b, e, 0) ELSE DigitsValue(s, b, e, 0)]

ScanDigits(s, b, neg) == ScanValue(s, b, DigitsEnd(s, b), neg)

ScanSigned(s, a) ==
    IF a <= Len(s) /\ s[a] \in {"-", "+"} THEN ScanDigits(s, a + 1, s[a] = "-")
    ELSE ScanDigits(s, a, FALSE)

ScanNumber(s, i) == ScanSigned(s, SkipSpace(s, i))

\* sscanf(s, "%x %x ... ") with n conversions, from position i: the values it
\* assigned; their number is its return value.  ScanNext continues after the
\* conversion r.
RECURSIVE sscanf(_, _, _, _)
RECURSIVE ScanNext(_, _, _, _)
sscanf(s, i, n, got) ==
    IF Len(got) = n THEN got ELSE ScanNext(s, n, got, ScanNumber(s, i))

ScanNext(s, n, got, r) ==
    IF ~r.ok THEN got ELSE sscanf(s, r.next, n, Append(got, r.val))

\* if(!goblin3d_add_point(...)) { file.close(); return false; }
\* m is the machine before the call and r the one the call ended in.
CheckedAddPoint(m, r) ==
    IF ~Active(m) THEN m
    ELSE IF Ok(r) /\ r.ret THEN [r EXCEPT !.done = FALSE]
    ELSE r

\* A "v " line whose sscanf assigned f: x, y, z stay uninitialised where it
\* assigned nothing.
VertexFields(m, f) ==
    IF Len(f) < 3 THEN SetUB(m, "uninit_read")
    ELSE CheckedAddPoint(m, goblin3d_add_point(m, f[1], f[2], f[3]))

VertexLine(m, s) ==
    IF ~Active(m) THEN m ELSE VertexFields(m, sscanf(s, 3, 3, <<>>))

\* The caller of goblin3d_add_edge goes on whatever the call returned.
Ignored(r) == IF Ok(r) THEN [r EXCEPT !.done = FALSE, !.ret = TRUE] ELSE r

\* goblin3d_add_edge(obj, a - 1, b - 1); the result is not looked at.
IgnoredAddEdge(m, a, b) ==
    IF ~Active(m) THEN m
    ELSE Ignored(goblin3d_add_edge(m, U32Dec(a), U32Dec(b)))

\* The triangle without its closing edge.
TriangleEdgesOpen(m, v) ==
    IgnoredAddEdge(IgnoredAddEdge(m, v[1], v[2]), v[2], v[3])

\* if(count == 3): the three edges of a triangle.
TriangleEdges(m, v) ==
    IgnoredAddEdge(IgnoredAddEdge(IgnoredAddEdge(m, v[1], v[2]), v[2], v[3]),
                   v[3], v[1])

\* if(count == 4): the four edges of a quadrilateral.
QuadEdges(m, v) ==
    IgnoredAddEdge(IgnoredAddEdge(IgnoredAddEdge(IgnoredAddEdge(
        m, v[1], v[2]), v[2], v[3]), v[3], v[4]), v[4], v[1])

\* An "f " line whose sscanf assigned v; count is Len(v).
FaceFields(m, v) ==
    IF Len(v) = 3 THEN TriangleEdges(m, v)
    ELSE IF Len(v) = 4 THEN QuadEdges(m, v)
    ELSE m

FaceLine(m, s) ==
    IF ~Active(m) THEN m ELSE FaceFields(m, sscanf(s, 3, 4, <<>>))

\* What the importer does with a complete line.
ProcessLine(m, s) ==
    IF StartsWith(s, <<"v", " ">>) THEN VertexLine(m, s)
    ELSE IF StartsWith(s, <<"f", " ">>) THEN FaceLine(m, s)
    ELSE m

Failed(m) == m.fail \cap (1..m.ac)

\* The importer's state p after the line it held was processed, with machine
\* m: line = "", unless the function has returned.
AfterLine(p, m) ==
    [m |-> m,
     line |-> IF Active(m) THEN <<>> ELSE p.line,
     pos |-> p.pos + 1,
     failed_at |-> IF p.failed_at = 0 /\ Failed(m) # {}
                   THEN p.pos + 1 ELSE p.failed_at]

\* One turn of while(file.available()): p is the importer's state, the
\* machine m, the line buffer, the characters read and where the first
\* allocation failure happened.
ParseChar(p, c) ==
    IF c \in {"\n", "\r"} THEN AfterLine(p, ProcessLine(p.m, p.line))
    ELSE [p EXCEPT !.line = Append(@, c), !.pos = @ + 1]

\* The loop, from state p0.  (The state is bound to a value before the turn
\* is taken, so that it is computed once.)
RECURSIVE ParseLoop(_, _)
ParseLoop(p0, chars) ==
    CHOOSE r \in {IF ~Active(p.m) \/ p.pos >= Len(chars) THEN p
                  ELSE ParseLoop(ParseChar(p, chars[p.pos + 1]), chars) :
                  p \in {p0}} : TRUE

\* A slip: the line buffer left at the end of the file is processed too.
FlushedAtEnd(p) == [p EXCEPT !.m = Ret(ProcessLine(p.m, p.line), TRUE)]

ParseFlushesAtEnd(m, file) ==
    IF ~file.opened
    THEN [m |-> Ret(m, FALSE), line |-> <<>>, pos |-> 0, failed_at |-> 0]
    ELSE FlushedAtEnd(ParseLoop([m |-> goblin3d_init_empty(m), line |-> <<>>,
                                 pos |-> 0, failed_at |-> 0], file.chars))

\* file is [opened, chars, says]; the importer reads opened and chars only.
goblin3d_parse_obj_file(m, file) ==
    IF ~file.opened
    THEN [m |-> Ret(m, FALSE), line |-> <<>>, pos |-> 0, failed_at |-> 0]
    ELSE [ParseLoop([m |-> goblin3d_init_empty(m), line |-> <<>>,
                     pos |-> 0, failed_at |-> 0], file.chars)
          EXCEPT !.m = Ret(@, TRUE)]

-----------------------------------------------------------------------------
(* The caller: one action per library call *)

\* The machine a call starts from; the allocations whose ordinal is in F fail.
Machine(F) ==
    [obj |-> obj, heap |-> heap, leaked |-> leaked, ub |-> ub,
     ac |-> 0, fail |-> F, done |-> FALSE, ret |-> TRUE]

\* Which allocations of a call with at most n of them fail: none, or one of them.
FailSets(n) == {{}} \cup {{k} : k \in 1..n}

\* What a caller can see of the mesh: the counts, and each vertex's original
\* position and each edge's two indices, <<>> for one that cannot be read.
OrigAt(m, i) ==
    IF \A j \in 0..2 : Access2(m, m.obj.orig_points, i, j) = "none"
    THEN [j \in 1..3 |-> Load2(m, m.obj.orig_points, i, j - 1)] ELSE <<>>

EdgeAt(m, i) ==
    IF EdgeAccess(m, i) = "none"
    THEN <<Load2(m, m.obj.edges, i, 0), Load2(m, m.obj.edges, i, 1)>> ELSE <<>>

Counted(n) == IF n >= 0 /\ n <= MaxPoints + MaxEdges + 4 * MaxLines + 1 THEN n ELSE 0

View(m) ==
    [point_count |-> m.obj.point_count,
     edge_count |-> m.obj.edge_count,
     orig |-> [i \in 1..Counted(m.obj.point_count) |-> OrigAt(m, i - 1)],
     edges |-> [i \in 1..Counted(m.obj.edge_count) |-> EdgeAt(m, i - 1)],
     leaked |-> m.leaked]

\* The state after a call that ended in machine m0.  After undefined behaviour
\* the memory is left as the call found it: nothing is said about it.
Return(m0, op, args) ==
    LET m == IF Ok(m0) THEN Normalize(m0) ELSE [Machine({}) EXCEPT !.ub = m0.ub]
    IN
    /\ obj' = m.obj
    /\ heap' = m.heap
    /\ leaked' = m.leaked
    /\ ub' = m.ub
    /\ last' = [op |-> op, args |-> args, ret |-> Ok(m0) /\ m0.ret,
                pre |-> View(Machine({})),
                failed |-> m0.fail \cap (1..m0.ac)]

NoCall == [op |-> "none", args |-> <<>>, ret |-> TRUE,
           pre |-> [point_count |-> 0, edge_count |-> 0, orig |-> <<>>,
                    edges |-> <<>>, leaked |-> 0],
           failed |-> {}]

\* The positions the caller passes to goblin3d_add_point.
Positions == {<<0, 0, -5>>, <<1, 2, -8>>}

\* The vertex indices the caller passes to goblin3d_add_edge, whatever the
\* number of vertices is: the function never looks at point_count.
Indices == {0, 1}

CallInitEmpty ==
    /\ ub = "none" /\ life = "raw"
    /\ Return(goblin3d_init_empty(Machine({})), "init_empty", <<>>)
    /\ life' = "ready"
    /\ drawn' = <<>>
    /\ UNCHANGED <<input, pos, line, failed_at>>

CallInit ==
    /\ ub = "none" /\ life = "raw"
    /\ \E pc \in 0..MaxPoints, ec \in 0..MaxEdges :
        \E F \in FailSets(4 + 3 * pc + ec) :
            LET r == goblin3d_init(Machine(F), pc, ec) IN
            /\ Return(r, "init", <<pc, ec>>)
            /\ life' = IF r.ret THEN "ready" ELSE "failed"
    /\ drawn' = <<>>
    /\ UNCHANGED <<input, pos, line, failed_at>>

CallAddPoint ==
    /\ ub = "none" /\ life = "ready"
    /\ obj.point_count < MaxPoints
    /\ \E v \in Positions, F \in FailSets(6) :
            Return(goblin3d_add_point(Machine(F), v[1], v[2], v[3]), "add_point", v)
    /\ drawn' = <<>>
    /\ UNCHANGED <<life, input, pos, line, failed_at>>

CallAddEdge ==
    /\ ub = "none" /\ life = "ready"
    /\ \E v1 \in Indices, v2 \in Indices, F \in FailSets(2) :
            LET r == goblin3d_add_edge(Machine(F), v1, v2) IN
            /\ r.obj.edge_count <= MaxEdges
            /\ Return(r, "add_edge", <<v1, v2>>)
    /\ drawn' = <<>>
    /\ UNCHANGED <<life, input, pos, line, failed_at>>

\* The indices the caller asks goblin3d_edge_exists about: stored ones, and
\* one no edge has (4294967295).
QueryIndices == Indices \cup {-1}

\* goblin3d_edge_exists called by the application itself.
CallEdgeExists ==
    /\ ub = "none" /\ life = "ready"
    /\ \E v1 \in QueryIndices, v2 \in QueryIndices :
        \E x \in {goblin3d_edge_exists(Machine({}), v1, v2)} :
            Return([Machine({}) EXCEPT !.ub = x.ub, !.ret = x.ret],
                   "edge_exists", <<v1, v2>>)
    /\ drawn' = <<>>
    /\ UNCHANGED <<life, input, pos, line, failed_at>>

\* goblin3d_free, on a built mesh, on one whose goblin3d_init failed, and a
\* second time on a released one.
CallFree ==
    /\ ub = "none" /\ life \in {"ready", "failed", "released"}
    /\ Return(goblin3d_free(Machine({})), "free", <<>>)
    /\ life' = IF life = "released" THEN "released_twice" ELSE "released"
    /\ drawn' = <<>>
    /\ UNCHANGED <<input, pos, line, failed_at>>

\* The caller sets the transform fields of the object directly: the three
\* angles, the three offsets and the scale.
Transforms ==
    {[x_angle_deg |-> 0, y_angle_deg |-> 0, z_angle_deg |-> 0,
      x_offset |-> 160, y_offset |-> 120, z_offset |-> 0, scale_size |-> 100],
     [x_angle_deg |-> 0, y_angle_deg |-> 0, z_angle_deg |-> 0,
      x_offset |-> 0, y_offset |-> 0, z_offset |-> 0, scale_size |-> 100],
     [x_angle_deg |-> 0, y_angle_deg |-> 0, z_angle_deg |-> 0,
      x_offset |-> 160, y_offset |-> 120, z_offset |-> -5, scale_size |-> 100],
     [x_angle_deg |-> 90, y_angle_deg |-> 0, z_angle_deg |-> 90,
      x_offset |-> 160, y_offset |-> 120, z_offset |-> 0, scale_size |-> 100],
     [x_angle_deg |-> 0, y_angle_deg |-> 90, z_angle_deg |-> 0,
      x_offset |-> 70000, y_offset |-> 120, z_offset |-> 0, scale_size |-> 1]}

CallSetTransform ==
    /\ ub = "none" /\ life = "ready"
    /\ \E t \in Transforms :
        /\ obj' = [f \in ObjFields |-> IF f \in TransformFields THEN t[f] ELSE obj[f]]
        /\ last' = [op |-> "set_transform", args |-> <<>>, ret |-> TRUE,
                    pre |-> View(Machine({})), failed |-> {}]
    /\ drawn' = <<>>
    /\ UNCHANGED <<heap, leaked, ub, life, input, pos, line, failed_at>>

\* goblin3d_add_point and goblin3d_add_edge with every allocation succeeding.
CallBuildPoint ==
    /\ ub = "none" /\ life = "ready"
    /\ obj.point_count < MaxPoints
    /\ \E v \in Positions :
            Return(goblin3d_add_point(Machine({}), v[1], v[2], v[3]), "add_point", v)
    /\ drawn' = <<>>
    /\ UNCHANGED <<life, input, pos, line, failed_at>>

CallBuildEdge ==
    /\ ub = "none" /\ life = "ready"
    /\ obj.edge_count < MaxEdges
    /\ \E v1 \in Indices, v2 \in Indices :
            Return(goblin3d_add_edge(Machine({}), v1, v2), "add_edge", <<v1, v2>>)
    /\ drawn' = <<>>
    /\ UNCHANGED <<life, input, pos, line, failed_at>>

CallPrecalculate ==
    /\ ub = "none" /\ life = "ready"
    /\ Return(goblin3d_precalculate(Machine({})), "precalculate", <<>>)
    /\ drawn' = <<>>
    /\ UNCHANGED <<life, input, pos, line, failed_at>>

CallRender ==
    /\ ub = "none" /\ life = "ready"
    /\ \E conv \in Conversions :
        LET r == goblin3d_render(Machine({}), conv) IN
        /\ Return(r.m, "render", <<>>)
        /\ drawn' = r.calls
    /\ UNCHANGED <<life, input, pos, line, failed_at>>

\* The lines the generated input files are made of: the characters, and what
\* the line says (its kind and its numbers).
Menu ==
    {[text |-> <<"v", " ", "0", " ", "0", " ", "-", "5">>,
      kind |-> "v", nums |-> <<0, 0, -5>>],
     [text |-> <<"v", " ", "1", " ", "2", " ", "-", "8">>,
      kind |-> "v", nums |-> <<1, 2, -8>>],
     [text |-> <<"f", " ", "1", " ", "2", " ", "3">>,
      kind |-> "f", nums |-> <<1, 2, 3>>],
     [text |-> <<"f", " ", "1", " ", "2", " ", "3", " ", "4">>,
      kind |-> "f", nums |-> <<1, 2, 3, 4>>],
     [text |-> <<"f", " ", "2", " ", "1">>,
      kind |-> "f", nums |-> <<2, 1>>],
     [text |-> <<"f", " ", "0", " ", "1", " ", "2">>,
      kind |-> "f", nums |-> <<0, 1, 2>>],
     [text |-> <<"#", " ", "x">>,
      kind |-> "#", nums |-> <<>>]}

Terminators == {"\n", "\r"}

\* The characters of the lines ls, each followed by t, the last one only if
\* terminated.
RECURSIVE FileChars(_, _, _)
FileChars(ls, t, terminated) ==
    IF ls = <<>> THEN <<>>
    ELSE ls[1].text \o (IF Len(ls) > 1 \/ terminated THEN <<t>> ELSE <<>>)
         \o FileChars(Tail(ls), t, terminated)

MakeFile(ls, t, terminated) ==
    [opened |-> TRUE,
     chars |-> FileChars(ls, t, terminated),
     says |-> [i \in 1..(IF terminated \/ ls = <<>> THEN Len(ls) ELSE Len(ls) - 1) |->
                  [kind |-> ls[i].kind, nums |-> ls[i].nums]]]

\* "v 0 0 0\nv 1 0 0\nv 0 1 0\nf 1 2 3\n"
ExampleFile ==
    MakeFile(<<[text |-> <<"v", " ", "0", " ", "0", " ", "0">>,
                kind |-> "v", nums |-> <<0, 0, 0>>],
               [text |-> <<"v", " ", "1", " ", "0", " ", "0">>,
                kind |-> "v", nums |-> <<1, 0, 0>>],
               [text |-> <<"v", " ", "0", " ", "1", " ", "0">>,
                kind |-> "v", nums |-> <<0, 1, 0>>],
               [text |-> <<"f", " ", "1", " ", "2", " ", "3">>,
                kind |-> "f", nums |-> <<1, 2, 3>>]>>, "\n", TRUE)

\* SD.open(filename) failed.
NoFile == [opened |-> FALSE, chars |-> <<>>, says |-> <<>>]

Files ==
    {MakeFile(ls, t, terminated) :
        ls \in UNION {[1..k -> Menu] : k \in 0..MaxLines},
        t \in Terminators, terminated \in BOOLEAN}
    \cup {ExampleFile, NoFile}

\* The most allocations one import of the model makes.
MaxAllocs == 6 * MaxLines + 12

CallParse ==
    /\ ub = "none" /\ life = "raw"
    /\ \E file \in Files, F \in FailSets(MaxAllocs) :
        \E p \in {goblin3d_parse_obj_file(Machine(F), file)} :
        /\ Return(p.m, "parse", <<>>)
        /\ input' = file
        /\ pos' = p.pos
        /\ line' = p.line
        /\ failed_at' = p.failed_at
        /\ life' = IF Ok(p.m) /\ p.m.ret THEN "ready" ELSE "failed"
    /\ drawn' = <<>>

-----------------------------------------------------------------------------
(* Specifications *)

\* The object before any call, in static storage.
Init ==
    /\ obj = RawObj(0)
    /\ heap = <<>>
    /\ leaked = 0
    /\ ub = "none"
    /\ life = "raw"
    /\ last = NoCall
    /\ drawn = <<>>
    /\ input = <<>>
    /\ pos = 0
    /\ line = <<>>
    /\ failed_at = 0

\* The mesh builder on an empty mesh, every allocation free to fail.
Next == CallInitEmpty \/ CallAddPoint \/ CallAddEdge

Spec == Init /\ [][Next]_vars

\* The object before any call, in static or in automatic storage.
InitStore ==
    /\ obj \in {RawObj(0), RawObj(Indet)}
    /\ heap = <<>>
    /\ leaked = 0
    /\ ub = "none"
    /\ life = "raw"
    /\ last = NoCall
    /\ drawn = <<>>
    /\ input = <<>>
    /\ pos = 0
    /\ line = <<>>
    /\ failed_at = 0

\* The mesh store: a mesh pre-sized by goblin3d_init or grown from an empty
\* one, released once and twice, every allocation free to fail.
NextStore ==
    CallInit \/ CallInitEmpty \/ CallAddPoint \/ CallAddEdge \/ CallFree

SpecStore == InitStore /\ [][NextStore]_vars

\* A frame loop on a mesh grown from an empty one: the caller sets the
\* transform, runs the transform pass and renders, in any order.
NextRender ==
    \/ CallInitEmpty \/ CallBuildPoint \/ CallBuildEdge
    \/ CallSetTransform \/ CallPrecalculate \/ CallRender

SpecRender == Init /\ [][NextRender]_vars

\* The application grows a mesh and asks about its edges; every allocation of
\* an edge append is free to fail.
NextQuery == CallInitEmpty \/ CallBuildPoint \/ CallAddEdge \/ CallEdgeExists

SpecQuery == Init /\ [][NextQuery]_vars

\* One import into a raw object, every allocation free to fail.
NextParse == CallParse

SpecParse == Init /\ [][NextParse]_vars

-----------------------------------------------------------------------------
(* Properties of the mesh builder (under Spec) *)

\* The mesh as the caller sees it now.
Cur == View(Machine({}))

Pre == last.pre

UnorderedPair(e) == {e[1], e[2]}

\* Some edge of the view v is {v1, v2} in either order.
HasEdge(v, v1, v2) ==
    \E i \in 1..Len(v.edges) : v.edges[i] = <<v1, v2>> \/ v.edges[i] = <<v2, v1>>

\* C2: whatever sequence of goblin3d_add_point and goblin3d_add_edge calls an
\* empty mesh has seen, with whatever indices, no two stored edges are the same
\* unordered pair of vertices.
C2_NoDuplicateEdges ==
    \A i, j \in 1..Len(Cur.edges) :
        (i # j /\ Cur.edges[i] # <<>> /\ Cur.edges[j] # <<>>)
            => UnorderedPair(Cur.edges[i]) # UnorderedPair(Cur.edges[j])

\* Two edges are stored and the last call asked for the first one reversed.
C2_Witness ==
    /\ ub = "none" /\ last.op = "add_edge" /\ last.ret
    /\ Cur.edges = <<<<0, 1>>, <<1, 1>>>>
    /\ last.args = <<1, 0>>

\* C3: goblin3d_add_edge(obj, v1, v2) on a mesh that holds {v1, v2} returns true
\* and leaves the edges and their count as they were; otherwise, no allocation
\* failing, it returns true, the count grows by one, the earlier edges stay and
\* (v1, v2), in that order, is the last edge.  Either way a second call with the
\* same arguments, whatever allocation fails in it, leaves the count as the
\* first left it.
C3_AddEdgeContract ==
    (ub = "none" /\ last.op = "add_edge") =>
        LET v1 == last.args[1]
            v2 == last.args[2]
        IN /\ HasEdge(Pre, v1, v2) =>
                (last.ret /\ Cur.edge_count = Pre.edge_count /\ Cur.edges = Pre.edges)
           /\ (~HasEdge(Pre, v1, v2) /\ last.failed = {}) =>
                /\ last.ret
                /\ Cur.edge_count = Pre.edge_count + 1
                /\ Cur.edges = Append(Pre.edges, <<v1, v2>>)
           /\ (last.ret /\ last.failed = {}) =>
                \A F \in FailSets(2) :
                    LET again == goblin3d_add_edge(Machine(F), v1, v2) IN
                    /\ Ok(again) /\ again.ret
                    /\ again.obj.edge_count = obj.edge_count

\* (1, 0) was appended, in that order, behind an earlier edge.
C3_Witness ==
    /\ ub = "none" /\ last.op = "add_edge" /\ last.args = <<1, 0>>
    /\ Pre.edges = <<<<0, 0>>>>
    /\ Cur.edges = <<<<0, 0>>, <<1, 0>>>>

\* The bool a call returned, as the number a caller reads it as.
RetNumber == IF last.ret THEN 1 ELSE 0

AddPointStores ==
    /\ Cur.point_count = Pre.point_count + 1
    /\ Cur.orig[Cur.point_count] = last.args
    /\ \A i \in 1..Pre.point_count : Cur.orig[i] = Pre.orig[i]

\* C4 as amended: a goblin3d_add_point(obj, x, y, z) that returns true has
\* returned the bool true and no index; the vertex count has grown by one,
\* (x, y, z) is the original position at the index that was the count before
\* the call, and the earlier original positions are as they were.
C4_AddPointAppends ==
    (ub = "none" /\ last.op = "add_point" /\ last.ret) =>
        (AddPointStores /\ RetNumber = 1)

\* A second vertex was appended behind a different first one.
C4_Witness ==
    /\ ub = "none" /\ last.op = "add_point" /\ last.ret
    /\ Pre.orig = <<<<0, 0, -5>>>>
    /\ Cur.orig = <<<<0, 0, -5>>, <<1, 2, -8>>>>

\* C4 as stated: the value returned by a successful goblin3d_add_point is the
\* vertex count before the call.
C4_ReturnsIndex ==
    (ub = "none" /\ last.op = "add_point" /\ last.ret) =>
        (AddPointStores /\ RetNumber = Pre.point_count)

\* C9 as stated: goblin3d_add_point returns false only when an allocation
\* failed, and when one of its six allocations fails it returns false, the
\* vertex count is what it was and every vertex stored before can still be read.
C9_FailureRollsBack ==
    (last.op = "add_point") =>
        /\ (ub = "none" /\ ~last.ret) => last.failed # {}
        /\ last.failed # {} =>
            /\ ub = "none" /\ ~last.ret
            /\ Cur.point_count = Pre.point_count
            /\ \A i \in 1..Pre.point_count :
                   Cur.orig[i] = Pre.orig[i] /\ Pre.orig[i] # <<>>

-----------------------------------------------------------------------------
(* Properties of the mesh store (under SpecStore) *)

\* C7 as stated: when an allocation of goblin3d_init fails, the call returns
\* false having freed every block it had allocated, each once, and having freed
\* or dereferenced nothing that was never allocated.
C7_InitFailureReleases ==
    (last.op = "init" /\ last.failed # {}) =>
        (ub = "none" /\ ~last.ret /\ Len(heap) = 0 /\ leaked = 0)

\* C8 as stated: goblin3d_free on an empty, a built or a partly built mesh
\* frees every block the mesh owns, each once, and a second goblin3d_free on
\* the same mesh frees nothing and touches no freed block.
C8_FreeIdempotent ==
    (last.op = "free") =>
        (ub = "none" /\ Len(heap) = 0 /\ leaked = Pre.leaked)

-----------------------------------------------------------------------------
(* Properties of the transform and the renderer, checked under SpecRender *)

\* The stored position, the rotated position and the projected pair of vertex i
\* in the current state.
OrigNow(i) == [k \in 1..3 |-> Load2(Machine({}), obj.orig_points, i, k - 1)]

RotatedNow(i) == [k \in 1..3 |-> Load2(Machine({}), obj.rotated_points, i, k - 1)]

ProjectedNow(i) == [k \in 1..2 |-> Load2(Machine({}), obj.points, i, k - 1)]

\* C1: a render that returns has called draw once per stored edge, in
\* insertion order, the i-th call with the projected (x, y) of the first
\* vertex of edge i followed by the projected (x, y) of its second vertex,
\* whatever the projected values are (negative and above 65535 included).
C1_RenderDrawsProjected ==
    (ub = "none" /\ last.op = "render") =>
        /\ Len(drawn) = obj.edge_count
        /\ \A i \in 1..Len(drawn) : drawn[i] = DrawArgs(Machine({}), i - 1)

\* C5: after precalculate every vertex has rotated.z = rotated Z + z offset and
\* is projected with the depth min(rotated.z, -3) taken from that stored
\* rotated.z; vertex (0,0,-5) with offsets (160,120,0), scale 100 and zero
\* rotation projects to (160, 120).
C5_ProjectionUsesStoredDepth ==
    (ub = "none" /\ last.op = "precalculate") =>
        \A i \in 0..(obj.point_count - 1) :
            LET r == RotatedNow(i) IN
            /\ r[3] = Rotate(OrigNow(i), obj)[3] + obj.z_offset
            /\ ProjectedNow(i) =
                   <<RoundQuot(r[1], Clamp(r[3]), obj.scale_size) + obj.x_offset,
                     RoundQuot(r[2], Clamp(r[3]), obj.scale_size) + obj.y_offset>>
            /\ (/\ OrigNow(i) = <<0, 0, -5>>
                /\ obj.x_angle_deg = 0 /\ obj.y_angle_deg = 0 /\ obj.z_angle_deg = 0
                /\ obj.x_offset = 160 /\ obj.y_offset = 120 /\ obj.z_offset = 0
                /\ obj.scale_size = 100) => ProjectedNow(i) = <<160, 120>>

\* C13: a goblin3d_precalculate with the three angles 0 stores, for every
\* vertex, rotated = (original.x, original.y, original.z + z offset), and
\* leaves the original positions, the edges, the counts and the transform
\* fields as they were.
C13_ZeroRotationKeepsPositions ==
    [][(/\ last'.op = "precalculate" /\ ub' = "none"
        /\ obj.x_angle_deg = 0 /\ obj.y_angle_deg = 0 /\ obj.z_angle_deg = 0) =>
           /\ \A i \in 0..(obj.point_count - 1) :
                  RotatedNow(i)' = <<OrigNow(i)[1], OrigNow(i)[2],
                                     OrigNow(i)[3] + obj.z_offset>>
           /\ Cur' = Cur
           /\ \A f \in TransformFields : obj'[f] = obj[f]]_vars

\* C13 witness: two vertices were transformed with zero angles and z offset -5.
C13_Witness ==
    /\ ub = "none" /\ last.op = "precalculate"
    /\ obj.x_angle_deg = 0 /\ obj.y_angle_deg = 0 /\ obj.z_angle_deg = 0
    /\ obj.z_offset = -5
    /\ Cur.orig = <<<<0, 0, -5>>, <<1, 2, -8>>>>
    /\ RotatedNow(0) = <<0, 0, -10>> /\ RotatedNow(1) = <<1, 2, -13>>

-----------------------------------------------------------------------------
(* Properties of the importer, checked under SpecParse *)

\* The positions of the "v " lines of a file, in file order.
RECURSIVE SaidVertices(_)
SaidVertices(says) ==
    IF says = <<>> THEN <<>>
    ELSE (IF says[1].kind = "v" THEN <<says[1].nums>> ELSE <<>>)
         \o SaidVertices(Tail(says))

\* The closed cycle of a face with 1-based indices n, as 0-based pairs.
Cycle(n) == [k \in 1..Len(n) |-> <<n[k] - 1, n[(k % Len(n)) + 1] - 1>>]

\* The edges es, then those of ps that no earlier edge joins.
RECURSIVE AppendAbsent(_, _)
AppendAbsent(es, ps) ==
    IF ps = <<>> THEN es
    ELSE AppendAbsent(IF \E k \in 1..Len(es) : UnorderedPair(es[k]) = UnorderedPair(ps[1])
                      THEN es ELSE Append(es, ps[1]),
                      Tail(ps))

\* The edge list the "f " lines of a file with three or four indices give.
RECURSIVE SaidEdges(_, _)
SaidEdges(says, es) ==
    IF says = <<>> THEN es
    ELSE SaidEdges(Tail(says),
                   IF says[1].kind = "f" /\ Len(says[1].nums) \in {3, 4}
                   THEN AppendAbsent(es, Cycle(says[1].nums)) ELSE es)

\* C6: an import in which no allocation fails returns success with one vertex
\* per "v " line in file order and, for each "f " line with three or four
\* indices, the closed cycle of its 0-based indices added edge by edge unless
\* already stored; the text "v 0 0 0\nv 1 0 0\nv 0 1 0\nf 1 2 3\n" gives 3
\* vertices and the edges (0,1),(1,2),(2,0).
C6_ParseBuildsMesh ==
    (last.op = "parse" /\ input.opened /\ last.failed = {}) =>
        /\ ub = "none" /\ last.ret
        /\ obj.point_count = Len(SaidVertices(input.says))
        /\ Cur.orig = SaidVertices(input.says)
        /\ obj.edge_count = Len(SaidEdges(input.says, <<>>))
        /\ Cur.edges = SaidEdges(input.says, <<>>)
        /\ input = ExampleFile =>
               /\ obj.point_count = 3
               /\ Cur.edges = <<<<0, 1>>, <<1, 2>>, <<2, 0>>>>

\* C6 witness: the example text was imported, and a file with two faces that
\* share edges is among the inputs.
C6_Witness ==
    /\ last.op = "parse" /\ last.failed = {} /\ last.ret
    /\ input = ExampleFile
    /\ Cur.orig = <<<<0, 0, 0>>, <<1, 0, 0>>, <<0, 1, 0>>>>
    /\ Cur.edges = <<<<0, 1>>, <<1, 2>>, <<2, 0>>>>

\* C10: an import in which an allocation fails returns failure with the mesh
\* released and has read nothing after the line whose append failed.
C10_ParseFailureAborts ==
    (last.op = "parse" /\ last.failed # {}) =>
        /\ ub = "none" /\ ~last.ret
        /\ Len(heap) = 0 /\ leaked = 0
        /\ pos = failed_at

\* The position of the last terminator among the first i characters, or 0.
RECURSIVE LastTerminator(_, _)
LastTerminator(chars, i) ==
    IF i = 0 \/ chars[i] \in {"\n", "\r"} THEN i ELSE LastTerminator(chars, i - 1)

\* The characters after the last terminator of the input.
Unterminated(chars) == SubSeq(chars, LastTerminator(chars, Len(chars)) + 1, Len(chars))

\* C14: an import in which no allocation fails reads the whole input and
\* returns success; the characters after the last terminator are left in the
\* line buffer and add no vertex and no edge: the mesh is the one of the
\* terminated lines.
C14_UnterminatedTailIgnored ==
    (last.op = "parse" /\ input.opened /\ last.failed = {}) =>
        /\ ub = "none" /\ last.ret
        /\ pos = Len(input.chars)
        /\ line = Unterminated(input.chars)
        /\ obj.point_count = Len(SaidVertices(input.says))
        /\ obj.edge_count = Len(SaidEdges(input.says, <<>>))
        /\ Cur.orig = SaidVertices(input.says) /\ Cur.edges = SaidEdges(input.says, <<>>)

\* C14 witness: the input ended in a "v " line without terminator after a
\* terminated one, and the mesh has the one vertex.
C14_Witness ==
    /\ ub = "none" /\ last.op = "parse" /\ last.ret /\ last.failed = {}
    /\ Unterminated(input.chars) = <<"v", " ", "1", " ", "2", " ", "-", "8">>
    /\ line = Unterminated(input.chars)
    /\ Cur.orig = <<<<0, 0, -5>>>>

\* C11: the mesh a successful import returns has both indices of every stored
\* edge below its vertex count, whatever the face lines refer to (index 0, an
\* index above the number of vertices, a vertex defined later in the file).
C11_ParsedEdgesInRange ==
    (ub = "none" /\ last.op = "parse" /\ last.ret /\ last.failed = {}) =>
        \A i \in 1..Len(Cur.edges) : \A k \in 1..2 :
            Cur.edges[i][k] >= 0 /\ Cur.edges[i][k] < obj.point_count

-----------------------------------------------------------------------------
(* Properties of the edge query, checked under SpecQuery *)

\* C12: goblin3d_edge_exists(v1, v2) returns true exactly when some stored
\* edge is (v1, v2) or (v2, v1), the same as goblin3d_edge_exists(v2, v1)
\* returns, and leaves the mesh as it was.
C12_EdgeExistsSymmetric ==
    (ub = "none" /\ last.op = "edge_exists") =>
        /\ last.ret = HasEdge(Pre, last.args[1], last.args[2])
        /\ last.ret = goblin3d_edge_exists(Machine({}), last.args[2], last.args[1]).ret
        /\ Cur = Pre

\* C12 witness: the pair (1, 0) was asked of a mesh that stores (1, 1) and
\* (0, 1), and found.
C12_Witness ==
    /\ ub = "none" /\ last.op = "edge_exists" /\ last.ret
    /\ last.args = <<1, 0>>
    /\ Pre.edges = <<<<1, 1>>, <<0, 1>>>>

====
